---- MODULE Spec2Model ----
(***************************************************************************)
(* FlipMouse (src/main.c): the event translation engine, the toggle/hold   *)
(* detector, the control protocol handler and the event loop that          *)
(* schedules them, as a state machine.                                      *)
(***************************************************************************)
EXTENDS Integers, Sequences, FiniteSets, TLC

(* ------------------------------------------------------------------ *)
(* Bounds of the model                                                  *)
(* ------------------------------------------------------------------ *)

\* Event timestamps (input_event_sec) are wall-clock seconds, far above the
\* sentinel values 0 and 1 that toggle_down_at also takes; the clock of the
\* model starts at MinTime and may advance up to MaxTime.
MinTime == 2
MaxTime == 4

\* speed++ has no upper clamp in the code; the model stops raising it here.
MaxSpeed == 4

\* The grabbed input devices of app_state.devices, in list order.
Devices == {1, 2}

(* ------------------------------------------------------------------ *)
(* Program constants                                                    *)
(* ------------------------------------------------------------------ *)

\* Width of `static unsigned int slowdown_counter`, scaled down from 32 bits:
\* 2^4 and 2^32 leave the same remainder (1) modulo WHEEL_SLOWDOWN_FACTOR.
UINT_BITS == 4

MIN_MOUSE_SPEED == 1
WHEEL_SLOWDOWN_FACTOR == 5
MAX_TOGGLE_HOLD_TIME == 1

CHANGED_TO_MOUSE == -2
MUTE_EVENT == 0
PASS_THRU_EVENT == 1
CHANGED_EVENT == 2

\* <linux/input-event-codes.h>, as used by the code
EV_SYN == 0
EV_KEY == 1
EV_REL == 2
EV_MSC == 4
SYN_REPORT == 0
MSC_SCAN == 4
REL_X == 0
REL_Y == 1
REL_WHEEL == 8
BTN_LEFT == 272
KEY_ENTER == 28
KEY_A == 30
KEY_B == 48
KEY_F12 == 88
KEY_UP == 103
KEY_LEFT == 105
KEY_RIGHT == 106
KEY_DOWN == 108
KEY_VOLUMEDOWN == 114
KEY_VOLUMEUP == 115
KEY_HELP == 138
KEY_MENU == 139
KEY_SEND == 231

\* keymap_t tables: sequences of [scancode, keycode]
keypad_keymap ==
  << [scancode |-> 35, keycode |-> KEY_UP],
     [scancode |-> 9,  keycode |-> KEY_DOWN],
     [scancode |-> 19, keycode |-> KEY_LEFT],
     [scancode |-> 34, keycode |-> KEY_RIGHT],
     [scancode |-> 33, keycode |-> KEY_MENU],
     [scancode |-> 2,  keycode |-> KEY_SEND],
     [scancode |-> 42, keycode |-> KEY_HELP] >>

laptop_keymap ==
  << [scancode |-> 200, keycode |-> KEY_UP],
     [scancode |-> 208, keycode |-> KEY_DOWN],
     [scancode |-> 203, keycode |-> KEY_LEFT],
     [scancode |-> 205, keycode |-> KEY_RIGHT],
     [scancode |-> 17,  keycode |-> KEY_MENU],
     [scancode |-> 31,  keycode |-> KEY_SEND],
     [scancode |-> 88,  keycode |-> KEY_HELP] >>

\* A scan value present in neither table.
UnmappedScan == 1

(* ------------------------------------------------------------------ *)
(* State                                                                *)
(* ------------------------------------------------------------------ *)

VARIABLES
  enabled,           \* app_state.mouse.enabled (int, 0/1)
  toggle_down_at,    \* app_state.mouse.toggle_down_at
  speed,             \* app_state.mouse.speed
  drag_mode,         \* app_state.mouse.drag_mode (int, 0/1)
  slowdown_counter,  \* static unsigned in mouse_handle_event
  running,           \* app_state.running
  keymap,            \* app_state.keymap (chosen by devices_find_and_init)
  pc,                \* position of main/run_event_loop
  ctl_ready,         \* FD_ISSET(control_fd, &rfds) of this iteration, not yet served
  rfds,              \* devices of this iteration that are ready and not yet served
  now,               \* clock that stamps the events read
  last,              \* kind of the step taken last
  raw,               \* the event record as read from the device (before rewriting)
  event,             \* run_event_loop's `event` after handle_input_event
  event_result,      \* run_event_loop's event_result
  sink,              \* where the last event was written: "none", "passthru", "mouse"
  sink_dev,          \* the device whose uidev received it (0: not a passthrough)
  line,              \* the control line handled last
  reply,             \* the reply written to the control client
  old,               \* ModeState and run flag before the step taken last
  toggle_pressed_at, \* time of the toggle-key press not yet released (-1: none)
  commanded,         \* value of enabled the last control command left (-1: none)
  muted_since,       \* scroll events muted since the last forwarded one (-1: none forwarded yet)
  muted_before,      \* scroll events muted between the last two forwarded ones (-1: fewer than two)
  toggles,           \* parity of the mode togglings so far (short taps, commands that change the mode)
  status_file,       \* content of STATUS_FILE as write_status_file left it
  toggle_scan_at,    \* time of the toggle key's scan code whose key event is still to come (-1: none)
  default_out,       \* value of the last default-button event written to a passthrough sink (0: none yet)
  default_in_press,  \* 1 if a scan code of the current press of the toggle key emitted a default-button event
  button_out         \* value of the last BTN_LEFT event written to the virtual mouse (0: none yet)

vars == << enabled, toggle_down_at, speed, drag_mode, slowdown_counter, running,
           keymap, pc, ctl_ready, rfds, now, last, raw, event, event_result,
           sink, sink_dev, line, reply, old, toggle_pressed_at, commanded,
           muted_since, muted_before, toggles, status_file, toggle_scan_at,
           default_out, default_in_press, button_out >>

(* ------------------------------------------------------------------ *)
(* Helpers for C values                                                 *)
(* ------------------------------------------------------------------ *)

\* C's `!x` on an int
Not(x) == IF x = 0 THEN 1 ELSE 0

\* 2^n
RECURSIVE Pow2(_)
Pow2(n) == IF n = 0 THEN 1 ELSE 2 * Pow2(n - 1)

\* `slowdown_counter++` on an unsigned int: the value after the increment
UIntInc(c) == (c + 1) % Pow2(UINT_BITS)

\* The ModeState fields, the static counter and the run flag, as one record
State(e, t, s, d, c, r) ==
  [enabled |-> e, toggle_down_at |-> t, speed |-> s, drag_mode |-> d,
   slowdown_counter |-> c, running |-> r]

\* struct input_event
Ev(t, c, v, sec) == [type |-> t, code |-> c, value |-> v, sec |-> sec]

(* ------------------------------------------------------------------ *)
(* Keymap functions                                                     *)
(* ------------------------------------------------------------------ *)

RECURSIVE ScanFrom(_, _, _)
ScanFrom(km, keycode, i) ==
  IF i > Len(km) THEN -1
  ELSE IF km[i].keycode = keycode THEN km[i].scancode
  ELSE ScanFrom(km, keycode, i + 1)

keymap_get_scanvalue(km, keycode) == ScanFrom(km, keycode, 1)

RECURSIVE KeyFrom(_, _, _)
KeyFrom(km, scanvalue, i) ==
  IF i > Len(km) THEN -1
  ELSE IF km[i].scancode = scanvalue THEN km[i].keycode
  ELSE KeyFrom(km, scanvalue, i + 1)

keymap_get_keycode(km, scanvalue) == KeyFrom(km, scanvalue, 1)

(* ------------------------------------------------------------------ *)
(* Toggle/hold detector                                                 *)
(* ------------------------------------------------------------------ *)

get_toggle_time(event_time, st) ==
  IF st.toggle_down_at = 0 THEN 0
  ELSE event_time - st.toggle_down_at

\* Each handler yields [ret, ev, st]: the return code, the event record as the
\* handler leaves it, and the state as the handler leaves it.
Res(r, ev, st) == [ret |-> r, ev |-> ev, st |-> st]

\* mouse_toggle with `<=` for `<` in the hold test
mouse_toggle_le(ev, st) ==
  IF ev.value = 1
  THEN Res(CHANGED_TO_MOUSE, ev, [st EXCEPT !.toggle_down_at = ev.sec])
  ELSE IF ev.value = 0 /\ st.toggle_down_at # 0
  THEN IF get_toggle_time(ev.sec, st) <= MAX_TOGGLE_HOLD_TIME
       THEN Res(CHANGED_TO_MOUSE, ev,
                [st EXCEPT !.enabled = Not(st.enabled), !.toggle_down_at = 0])
       ELSE Res(CHANGED_TO_MOUSE, ev, st)
  ELSE Res(MUTE_EVENT, ev, st)

\* mouse_toggle that turns the mode on instead of flipping it
mouse_toggle_on(ev, st) ==
  IF ev.value = 1
  THEN Res(CHANGED_TO_MOUSE, ev, [st EXCEPT !.toggle_down_at = ev.sec])
  ELSE IF ev.value = 0 /\ st.toggle_down_at # 0
  THEN IF get_toggle_time(ev.sec, st) < MAX_TOGGLE_HOLD_TIME
       THEN Res(CHANGED_TO_MOUSE, ev,
                [st EXCEPT !.enabled = 1, !.toggle_down_at = 0])
       ELSE Res(CHANGED_TO_MOUSE, ev, st)
  ELSE Res(MUTE_EVENT, ev, st)

mouse_toggle(ev, st) ==
  IF ev.value = 1
  THEN Res(CHANGED_TO_MOUSE, ev, [st EXCEPT !.toggle_down_at = ev.sec])
  ELSE IF ev.value = 0 /\ st.toggle_down_at # 0
  THEN IF get_toggle_time(ev.sec, st) < MAX_TOGGLE_HOLD_TIME
       THEN Res(CHANGED_TO_MOUSE, ev,
                [st EXCEPT !.enabled = Not(st.enabled), !.toggle_down_at = 0])
       ELSE Res(CHANGED_TO_MOUSE, ev, st)
  ELSE Res(MUTE_EVENT, ev, st)

(* ------------------------------------------------------------------ *)
(* Event translator (pointer mode)                                      *)
(* ------------------------------------------------------------------ *)

\* The keycode the switch dispatches on
DispatchKey(km, ev) ==
  IF ev.type = EV_MSC /\ ev.code = MSC_SCAN
  THEN keymap_get_keycode(km, ev.value)
  ELSE ev.code

\* Wheel that passes the rate-limited events through instead of muting them
Wheel_unmuted(ev, st, v) ==
  LET st2 == [st EXCEPT !.slowdown_counter = UIntInc(st.slowdown_counter)]
  IN IF st.slowdown_counter % WHEEL_SLOWDOWN_FACTOR # 0
     THEN Res(PASS_THRU_EVENT, ev, st2)
     ELSE Res(CHANGED_TO_MOUSE,
              [ev EXCEPT !.type = EV_REL, !.code = REL_WHEEL, !.value = v], st2)

\* A scroll key's case: `if (slowdown_counter++ % WHEEL_SLOWDOWN_FACTOR)`
Wheel(ev, st, v) ==
  LET st2 == [st EXCEPT !.slowdown_counter = UIntInc(st.slowdown_counter)]
  IN IF st.slowdown_counter % WHEEL_SLOWDOWN_FACTOR # 0
     THEN Res(MUTE_EVENT, ev, st2)
     ELSE Res(CHANGED_TO_MOUSE,
              [ev EXCEPT !.type = EV_REL, !.code = REL_WHEEL, !.value = v], st2)

\* Motion that drops the sign of the step
Motion_unsigned(ev, st, axis, v) ==
  Res(CHANGED_TO_MOUSE,
      [ev EXCEPT !.type = EV_REL, !.code = axis, !.value = st.speed], st)

\* A directional key's case
Motion(ev, st, axis, v) ==
  Res(CHANGED_TO_MOUSE,
      [ev EXCEPT !.type = EV_REL, !.code = axis, !.value = v], st)

\* `speed++`
SpeedUp(st) == [st EXCEPT !.speed = st.speed + 1]

\* SpeedDown without the floor
SpeedDown_noclamp(st) == [st EXCEPT !.speed = st.speed - 1]

\* `speed--; if (speed < MIN_MOUSE_SPEED) speed = MIN_MOUSE_SPEED;`
SpeedDown(st) ==
  [st EXCEPT !.speed = IF st.speed - 1 < MIN_MOUSE_SPEED
                       THEN MIN_MOUSE_SPEED ELSE st.speed - 1]

\* case KEY_ENTER: the primary button, with the value of the key
Click(ev, st) ==
  Res(CHANGED_TO_MOUSE, [ev EXCEPT !.type = EV_KEY, !.code = BTN_LEFT], st)

\* Drag that takes the value of the button from the lock before the flip
Drag_stale(ev, st) ==
  IF ev.value = 1
  THEN Res(CHANGED_TO_MOUSE,
           [ev EXCEPT !.type = EV_KEY, !.code = BTN_LEFT,
                      !.value = IF st.drag_mode # 0 THEN 1 ELSE 0],
           [st EXCEPT !.drag_mode = Not(st.drag_mode)])
  ELSE Res(PASS_THRU_EVENT, ev, st)

\* case KEY_B: a press flips the drag lock and becomes the primary button,
\* pressed when locked; any other value breaks out of the switch
Drag(ev, st) ==
  IF ev.value = 1
  THEN LET d == Not(st.drag_mode) IN
       Res(CHANGED_TO_MOUSE,
           [ev EXCEPT !.type = EV_KEY, !.code = BTN_LEFT,
                      !.value = IF d # 0 THEN 1 ELSE 0],
           [st EXCEPT !.drag_mode = d])
  ELSE Res(PASS_THRU_EVENT, ev, st)

mouse_handle_event(km, ev, st) ==
  LET keycode == DispatchKey(km, ev) IN
  IF ev.type = EV_KEY /\ keymap_get_scanvalue(km, keycode) # -1
  THEN Res(MUTE_EVENT, ev, st)
  ELSE CASE keycode = KEY_VOLUMEUP ->
              Res(MUTE_EVENT, ev, IF ev.value = 1 THEN SpeedUp(st) ELSE st)
         [] keycode = KEY_VOLUMEDOWN ->
              Res(MUTE_EVENT, ev, IF ev.value = 1 THEN SpeedDown(st) ELSE st)
         [] keycode = KEY_ENTER -> Click(ev, st)
         [] keycode = KEY_B -> Drag(ev, st)
         [] keycode = KEY_UP    -> Motion(ev, st, REL_Y, -st.speed)
         [] keycode = KEY_DOWN  -> Motion(ev, st, REL_Y, st.speed)
         [] keycode = KEY_LEFT  -> Motion(ev, st, REL_X, -st.speed)
         [] keycode = KEY_RIGHT -> Motion(ev, st, REL_X, st.speed)
         [] keycode = KEY_MENU  -> Wheel(ev, st, 1)
         [] keycode = KEY_SEND  -> Wheel(ev, st, -1)
         [] OTHER -> Res(PASS_THRU_EVENT, ev, st)

(* ------------------------------------------------------------------ *)
(* Event translator (entry point)                                       *)
(* ------------------------------------------------------------------ *)

\* The scan-code branch for the toggle/default key fires and returns
LongHold(km, ev, st) ==
  /\ ev.type = MSC_SCAN /\ ev.code = MSC_SCAN
  /\ LET keycode == keymap_get_keycode(km, ev.value)
     IN keycode = KEY_HELP \/ keycode = KEY_F12
  /\ get_toggle_time(ev.sec, st) > MAX_TOGGLE_HOLD_TIME

\* DefaultButton that emits the press without recording it in toggle_down_at
DefaultButton_unrecorded(km, ev, st) ==
  LET td == st.toggle_down_at
      keycode == keymap_get_keycode(km, ev.value)
  IN IF td > 1
     THEN Res(CHANGED_EVENT,
              [ev EXCEPT !.type = EV_KEY, !.code = keycode, !.value = 1], st)
     ELSE IF td = 1
     THEN Res(CHANGED_EVENT,
              [ev EXCEPT !.type = EV_KEY, !.code = keycode, !.value = 0],
              [st EXCEPT !.toggle_down_at = 0])
     ELSE Res(MUTE_EVENT, ev, st)

\* What the branch does once it fires
DefaultButton(km, ev, st) ==
  LET td == st.toggle_down_at
      keycode == keymap_get_keycode(km, ev.value)
  IN IF td > 1
     THEN Res(CHANGED_EVENT,
              [ev EXCEPT !.type = EV_KEY, !.code = keycode, !.value = 1],
              [st EXCEPT !.toggle_down_at = 1])
     ELSE IF td = 1
     THEN Res(CHANGED_EVENT,
              [ev EXCEPT !.type = EV_KEY, !.code = keycode, !.value = 0],
              [st EXCEPT !.toggle_down_at = 0])
     ELSE Res(MUTE_EVENT, ev, st)

\* The direct key event of the toggle key
IsToggleKey(ev) ==
  ev.type = EV_KEY /\ (ev.code = KEY_HELP \/ ev.code = KEY_F12)

\* ModeGate without the test of the mode
ModeGate_open(km, ev, st) == mouse_handle_event(km, ev, st)

\* `if (!app_state.mouse.enabled) return PASS_THRU_EVENT;`
ModeGate(km, ev, st) ==
  IF st.enabled = 0
  THEN Res(PASS_THRU_EVENT, ev, st)
  ELSE mouse_handle_event(km, ev, st)

handle_input_event(km, ev, st) ==
  IF LongHold(km, ev, st) THEN DefaultButton(km, ev, st)
  ELSE IF IsToggleKey(ev) THEN mouse_toggle(ev, st)
  ELSE ModeGate(km, ev, st)

(* ------------------------------------------------------------------ *)
(* Control protocol handler                                             *)
(* ------------------------------------------------------------------ *)

\* Control lines are sequences of characters.
WhiteSpace == {" ", "\n", "\r", "\t"}

\* `while (*cmd == ' ' || ...) cmd++;`
RECURSIVE SkipSpace(_)
SkipSpace(cmd) ==
  IF cmd # << >> /\ Head(cmd) \in WhiteSpace THEN SkipSpace(Tail(cmd)) ELSE cmd

\* StrNCmp0 that stops comparing where the shorter string ends
StrNCmp0_short(cmd, word) ==
  LET n == IF Len(cmd) < Len(word) THEN Len(cmd) ELSE Len(word)
  IN n > 0 /\ SubSeq(cmd, 1, n) = SubSeq(word, 1, n)

\* `strncmp(cmd, word, strlen(word)) == 0`
StrNCmp0(cmd, word) ==
  /\ Len(cmd) >= Len(word)
  /\ SubSeq(cmd, 1, Len(word)) = word

W_enable  == << "e", "n", "a", "b", "l", "e" >>
W_disable == << "d", "i", "s", "a", "b", "l", "e" >>
W_toggle  == << "t", "o", "g", "g", "l", "e" >>
W_status  == << "s", "t", "a", "t", "u", "s" >>
W_quit    == << "q", "u", "i", "t" >>

\* StatusReply with the arguments of speed and drag exchanged
StatusReply_swapped(st) ==
  << "enabled=", st.enabled, " speed=", st.drag_mode, " drag=", st.speed >>

\* The reply of `status`: "enabled=%d speed=%d drag=%d\n"
StatusReply(st) ==
  << "enabled=", st.enabled, " speed=", st.speed, " drag=", st.drag_mode >>

\* Yields [reply, st]
Ctl(r, st) == [reply |-> r, st |-> st]

\* CmdEnable that flips the mode instead of setting it
CmdEnable_flip(st) ==
  Ctl(<< "ok enabled" >>, [st EXCEPT !.enabled = Not(st.enabled)])

CmdEnable(st) == Ctl(<< "ok enabled" >>, [st EXCEPT !.enabled = 1])

\* CmdDisable with the assignment of the enable branch
CmdDisable_paste(st) == Ctl(<< "ok disabled" >>, [st EXCEPT !.enabled = 1])

CmdDisable(st) == Ctl(<< "ok disabled" >>, [st EXCEPT !.enabled = 0])

CmdToggle(st) ==
  LET e == Not(st.enabled) IN
  Ctl(IF e # 0 THEN << "ok enabled" >> ELSE << "ok disabled" >>,
      [st EXCEPT !.enabled = e])

CmdStatus(st) == Ctl(StatusReply(st), st)

\* CmdQuit that replies and leaves the run flag set
CmdQuit_keep(st) == Ctl(<< "ok quitting" >>, st)

CmdQuit(st) == Ctl(<< "ok quitting" >>, [st EXCEPT !.running = 0])

CmdUnknown(st) == Ctl(<< "err unknown_command" >>, st)

control_handle_command(line0, st) ==
  LET cmd == SkipSpace(line0) IN
  IF StrNCmp0(cmd, W_enable) THEN CmdEnable(st)
  ELSE IF StrNCmp0(cmd, W_disable) THEN CmdDisable(st)
  ELSE IF StrNCmp0(cmd, W_toggle) THEN CmdToggle(st)
  ELSE IF StrNCmp0(cmd, W_status) THEN CmdStatus(st)
  ELSE IF StrNCmp0(cmd, W_quit) THEN CmdQuit(st)
  ELSE CmdUnknown(st)

(* ------------------------------------------------------------------ *)
(* Environment: the events a device can deliver, the lines a client     *)
(* can send                                                              *)
(* ------------------------------------------------------------------ *)

Keymaps == {keypad_keymap, laptop_keymap}

KeyCodes ==
  {KEY_HELP, KEY_F12, KEY_UP, KEY_DOWN, KEY_LEFT, KEY_RIGHT, KEY_MENU, KEY_SEND,
   KEY_VOLUMEUP, KEY_VOLUMEDOWN, KEY_ENTER, KEY_B, KEY_A}

\* 0 = release, 1 = press, 2 = autorepeat
KeyValues == {0, 1, 2}

Key(c, v, t) == Ev(EV_KEY, c, v, t)
Scan(km, keycode, t) == Ev(EV_MSC, MSC_SCAN, keymap_get_scanvalue(km, keycode), t)
Syn(t) == Ev(EV_SYN, SYN_REPORT, 0, t)

\* Every event record of the model, stamped t
Events(km, t) ==
  {Key(c, v, t) : c \in KeyCodes, v \in KeyValues}
  \cup {Ev(EV_MSC, MSC_SCAN, km[i].scancode, t) : i \in 1..Len(km)}
  \cup {Ev(EV_MSC, MSC_SCAN, UnmappedScan, t), Syn(t)}

\* The user works the toggle key only (all of its events), plus an unrelated key.
ToggleEvents(km, t) ==
  {Key(c, v, t) : c \in {KEY_HELP, KEY_F12}, v \in KeyValues}
  \cup {Scan(km, KEY_HELP, t), Ev(EV_MSC, MSC_SCAN, UnmappedScan, t),
        Key(KEY_A, 1, t), Syn(t)}

\* The user moves the pointer, clicks, drags and changes speed: each
\* directional key as its scan code and its press, Enter and the drag key as
\* press and release. The mode is changed by control lines.
PointerEvents(km, t) ==
  {Scan(km, k, t) : k \in {KEY_UP, KEY_DOWN, KEY_LEFT, KEY_RIGHT}}
  \cup {Key(k, 1, t) : k \in {KEY_UP, KEY_DOWN, KEY_LEFT, KEY_RIGHT}}
  \cup {Key(k, v, t) : k \in {KEY_ENTER, KEY_B}, v \in {0, 1}}
  \cup {Key(KEY_VOLUMEUP, 1, t), Key(KEY_VOLUMEDOWN, 1, t),
         Key(KEY_VOLUMEDOWN, 0, t), Key(KEY_A, 1, t), Syn(t)}

\* The user scrolls and taps the toggle key.
WheelEvents(km, t) ==
  {Scan(km, KEY_MENU, t), Scan(km, KEY_SEND, t),
   Key(KEY_MENU, 1, t), Key(KEY_SEND, 0, t),
   Scan(km, KEY_UP, t), Key(KEY_UP, 2, t),
   Key(KEY_HELP, 1, t), Key(KEY_HELP, 0, t), Syn(t)}

\* The user taps the toggle key and changes speed and drag lock.
FewEvents(km, t) ==
  {Key(KEY_HELP, 1, t), Key(KEY_HELP, 0, t),
   Key(KEY_VOLUMEUP, 1, t), Key(KEY_VOLUMEDOWN, 1, t), Key(KEY_B, 1, t),
   Scan(km, KEY_LEFT, t)}

\* The toggle key as the keyboard sends it: a press and a release are each a
\* scan-code event followed by the key event with the same timestamp, and
\* presses and releases take turns. held is the press not yet released,
\* scan_at the scan code whose key event is still to come.
PhysicalEvents(km, t, held, scan_at) ==
  IF scan_at = -1 THEN {Scan(km, KEY_HELP, t)}
  ELSE IF held = -1 THEN {Key(KEY_HELP, 1, scan_at)}
  ELSE {Key(KEY_HELP, 0, scan_at)}

\* The user clicks, locks and unlocks the drag, and taps the toggle key.
DragEvents(km, t) ==
  {Key(KEY_ENTER, 1, t), Key(KEY_ENTER, 0, t), Key(KEY_B, 1, t),
   Key(KEY_HELP, 1, t), Key(KEY_HELP, 0, t)}

\* The user moves the pointer left or types a letter.
StopEvents(km, t) == {Scan(km, KEY_LEFT, t), Key(KEY_A, 1, t)}

NoEvent == Ev(-1, -1, -1, -1)

\* The lines control_send_cmd sends: the word and "\n"
ModeLines ==
  { W_enable \o << "\n" >>, W_disable \o << "\n" >>, W_toggle \o << "\n" >>,
    W_status \o << "\n" >>, W_quit \o << "\n" >> }

\* A client enables the mode or asks the program to quit.
StopLines == { W_enable \o << "\n" >>, W_quit \o << "\n" >> }

\* Lines any other client may send
Lines ==
  ModeLines \cup
  { << " ", " " >> \o W_enable \o << "\n" >>,
    W_enable \o << "d" >>,
    << "\t" >> \o W_disable,
    << "\r", "\n" >> \o W_status,
    << "f", "r", "o", "b", "n", "i", "c", "a", "t", "e" >>,
    << "E", "n", "a", "b", "l", "e" >>,
    << "e", "n", "a", "b" >>,
    << "x" >> \o W_enable,
    << "\n" >> }

(* ------------------------------------------------------------------ *)
(* Initial state: main() has run setup_signal_handlers,                 *)
(* devices_find_and_init, mouse_init and control_init                   *)
(* ------------------------------------------------------------------ *)

\* STATUS_FILE before the first write_status_file (whatever an earlier run
\* left is not this run's snapshot)
NoStatus == [enabled |-> -1, speed |-> -1, drag |-> -1]

\* write_status_file: "enabled=%d speed=%d drag=%d\n", the file truncated first
write_status_file(st) ==
  [enabled |-> st.enabled, speed |-> st.speed, drag |-> st.drag_mode]

Cur == State(enabled, toggle_down_at, speed, drag_mode, slowdown_counter, running)

Init ==
  /\ enabled = 0
  /\ toggle_down_at = 0
  /\ speed = 4
  /\ drag_mode = 0
  /\ slowdown_counter = 0
  /\ running = 0
  /\ keymap \in Keymaps
  /\ pc = "main"
  /\ ctl_ready = FALSE
  /\ rfds = {}
  /\ now = MinTime
  /\ last = "init"
  /\ raw = NoEvent
  /\ event = NoEvent
  /\ event_result = 0
  /\ sink = "none"
  /\ sink_dev = 0
  /\ line = << >>
  /\ reply = << >>
  /\ old = State(0, 0, 4, 0, 0, 0)
  /\ toggle_pressed_at = -1
  /\ commanded = -1
  /\ muted_since = -1
  /\ muted_before = -1
  /\ toggles = 0
  /\ status_file = NoStatus
  /\ toggle_scan_at = -1
  /\ default_out = 0
  /\ default_in_press = 0
  /\ button_out = 0

(* ------------------------------------------------------------------ *)
(* Actions                                                              *)
(* ------------------------------------------------------------------ *)

\* The program state becomes st; `old` keeps what it was before the step.
Become(st) ==
  /\ enabled' = st.enabled
  /\ toggle_down_at' = st.toggle_down_at
  /\ speed' = st.speed
  /\ drag_mode' = st.drag_mode
  /\ slowdown_counter' = st.slowdown_counter
  /\ running' = st.running
  /\ old' = Cur

\* No event was read, translated or written in this step.
NoEventSeen ==
  /\ raw' = NoEvent
  /\ event' = NoEvent
  /\ event_result' = 0
  /\ sink' = "none"
  /\ sink_dev' = 0

\* No control line was handled in this step.
NoCommandSeen ==
  /\ line' = << >>
  /\ reply' = << >>

\* The wall clock that stamps the events advances by a second.
Tick ==
  /\ pc # "exit"
  /\ now < MaxTime
  /\ now' = now + 1
  /\ UNCHANGED << enabled, toggle_down_at, speed, drag_mode, slowdown_counter,
                  running, keymap, pc, ctl_ready, rfds, last, raw, event,
                  event_result, sink, sink_dev, line, reply, old,
                  toggle_pressed_at, commanded, muted_since, muted_before,
                  toggles, status_file, toggle_scan_at, default_out,
                  default_in_press, button_out >>

\* signal_handler: may run at any point after setup_signal_handlers
Signal ==
  /\ pc # "exit"
  /\ Become([Cur EXCEPT !.running = 0])
  /\ last' = "signal"
  /\ NoEventSeen /\ NoCommandSeen
  /\ UNCHANGED << keymap, pc, ctl_ready, rfds, now, toggle_pressed_at, commanded, muted_since, muted_before,
                  toggles, status_file, toggle_scan_at, default_out,
                  default_in_press, button_out >>

\* run_event_loop up to `app_state.running = 1`
EnterLoop ==
  /\ pc = "main"
  /\ pc' = "while"
  /\ Become([Cur EXCEPT !.running = 1])
  /\ last' = "enter"
  /\ NoEventSeen /\ NoCommandSeen
  /\ UNCHANGED << keymap, ctl_ready, rfds, now, toggle_pressed_at, commanded, muted_since, muted_before,
                  toggles, status_file, toggle_scan_at, default_out,
                  default_in_press, button_out >>

\* `while (app_state.running)` is false
LoopExit ==
  /\ pc = "while"
  /\ running = 0
  /\ pc' = "exit"
  /\ Become(Cur)
  /\ last' = "exit"
  /\ NoEventSeen /\ NoCommandSeen
  /\ UNCHANGED << keymap, ctl_ready, rfds, now, toggle_pressed_at, commanded, muted_since, muted_before,
                  toggles, status_file, toggle_scan_at, default_out,
                  default_in_press, button_out >>

\* select() returns 0 (timeout) or fails with EINTR: `continue`
SelectIdle ==
  /\ pc = "while"
  /\ running # 0
  /\ Become(Cur)
  /\ last' = "idle"
  /\ NoEventSeen /\ NoCommandSeen
  /\ UNCHANGED << keymap, pc, ctl_ready, rfds, now, toggle_pressed_at, commanded, muted_since, muted_before,
                  toggles, status_file, toggle_scan_at, default_out,
                  default_in_press, button_out >>

\* select() fails with another error: `break`
SelectFail ==
  /\ pc = "while"
  /\ running # 0
  /\ pc' = "exit"
  /\ Become(Cur)
  /\ last' = "selectfail"
  /\ NoEventSeen /\ NoCommandSeen
  /\ UNCHANGED << keymap, ctl_ready, rfds, now, toggle_pressed_at, commanded, muted_since, muted_before,
                  toggles, status_file, toggle_scan_at, default_out,
                  default_in_press, button_out >>

\* SelectReady with the for loop over the devices ahead of the control socket
SelectReady_devices_first ==
  /\ pc = "while"
  /\ running # 0
  /\ \E c \in BOOLEAN, r \in SUBSET Devices :
       /\ c \/ r # {}
       /\ ctl_ready' = c
       /\ rfds' = r
       /\ pc' = IF r # {} THEN "devices" ELSE "control"
  /\ Become(Cur)
  /\ last' = "select"
  /\ NoEventSeen /\ NoCommandSeen
  /\ UNCHANGED << keymap, now, toggle_pressed_at, commanded, muted_since, muted_before,
                  toggles, status_file, toggle_scan_at, default_out,
                  default_in_press, button_out >>

\* select() returns > 0 with the control socket and/or some devices ready
SelectReady ==
  /\ pc = "while"
  /\ running # 0
  /\ \E c \in BOOLEAN, r \in SUBSET Devices :
       /\ c \/ r # {}
       /\ ctl_ready' = c
       /\ rfds' = r
       /\ pc' = IF c THEN "control" ELSE "devices"
  /\ Become(Cur)
  /\ last' = "select"
  /\ NoEventSeen /\ NoCommandSeen
  /\ UNCHANGED << keymap, now, toggle_pressed_at, commanded, muted_since, muted_before,
                  toggles, status_file, toggle_scan_at, default_out,
                  default_in_press, button_out >>

\* Where the loop goes once the devices in r remain to be served
AfterServing(r) == IF r = {} THEN "while" ELSE "devices"

\* control_handle_ready: accept() fails or read() yields nothing
ControlNoCommand ==
  /\ pc = "control"
  /\ ctl_ready' = FALSE
  /\ pc' = AfterServing(rfds)
  /\ Become(Cur)
  /\ last' = "nocommand"
  /\ NoEventSeen /\ NoCommandSeen
  /\ UNCHANGED << keymap, rfds, now, toggle_pressed_at, commanded, muted_since, muted_before,
                  toggles, status_file, toggle_scan_at, default_out,
                  default_in_press, button_out >>

\* The line is dispatched to the enable, disable or toggle branch
IsModeCommand(l) ==
  \E w \in {W_enable, W_disable, W_toggle} : StrNCmp0(SkipSpace(l), w)

\* The line asks for a change of mode: `toggle`, `enable` while disabled,
\* `disable` while enabled
TogglesMode(l, st) ==
  LET cmd == SkipSpace(l) IN
  \/ StrNCmp0(cmd, W_enable) /\ st.enabled = 0
  \/ ~StrNCmp0(cmd, W_enable) /\ StrNCmp0(cmd, W_disable) /\ st.enabled # 0
  \/ ~StrNCmp0(cmd, W_enable) /\ ~StrNCmp0(cmd, W_disable)
       /\ StrNCmp0(cmd, W_toggle)

\* STATUS_FILE once control_handle_command has handled line0 and left st: the
\* enable and disable branches call write_status_file, the others do not
StatusAfterCommand(line0, st, file) ==
  LET cmd == SkipSpace(line0) IN
  IF StrNCmp0(cmd, W_enable) \/ StrNCmp0(cmd, W_disable)
  THEN write_status_file(st)
  ELSE file

\* control_handle_ready: one line, drawn from L, is read and dispatched
ControlCommand(L) ==
  /\ pc = "control"
  /\ \E l \in L :
       LET r == control_handle_command(l, Cur) IN
       /\ Become(r.st)
       /\ line' = l
       /\ reply' = r.reply
       /\ commanded' = IF IsModeCommand(l) THEN r.st.enabled ELSE commanded
       /\ toggles' = IF TogglesMode(l, Cur) THEN 1 - toggles ELSE toggles
       /\ status_file' = StatusAfterCommand(l, r.st, status_file)
  /\ ctl_ready' = FALSE
  /\ pc' = AfterServing(rfds)
  /\ last' = "control"
  /\ NoEventSeen
  /\ UNCHANGED << keymap, rfds, now, toggle_pressed_at, muted_since, muted_before,
                  toggle_scan_at, default_out, default_in_press, button_out >>

\* The device the for loop serves next: the first ready one in list order
NextDevice == CHOOSE d \in rfds : \A e \in rfds : d <= e

\* read() does not return a whole event record: `continue`
DeviceReadFail ==
  /\ pc = "devices"
  /\ rfds' = rfds \ {NextDevice}
  /\ pc' = AfterServing(rfds')
  /\ Become(Cur)
  /\ last' = "readfail"
  /\ NoEventSeen /\ NoCommandSeen
  /\ UNCHANGED << keymap, ctl_ready, now, toggle_pressed_at, commanded, muted_since, muted_before,
                  toggles, status_file, toggle_scan_at, default_out,
                  default_in_press, button_out >>

\* SinkOf with the two signs exchanged
SinkOf_swapped(result) ==
  IF result < 0 THEN "passthru"
  ELSE IF result > 0 THEN "mouse"
  ELSE "none"

\* The sink the loop writes the event to, from the sign of event_result
SinkOf(result) ==
  IF result > 0 THEN "passthru"
  ELSE IF result < 0 THEN "mouse"
  ELSE "none"

\* A scan-code event that decodes to the toggle key
IsToggleScan(km, ev) ==
  /\ ev.type = EV_MSC /\ ev.code = MSC_SCAN
  /\ keymap_get_keycode(km, ev.value) \in {KEY_HELP, KEY_F12}

\* The scan code of the toggle key that waits for its key event, once ev is
\* handled: the time of a scan code, none (-1) after a key event
ScanAt(km, ev, at) ==
  IF IsToggleScan(km, ev) THEN ev.sec
  ELSE IF IsToggleKey(ev) THEN -1
  ELSE at

\* The value the default button was last given on a passthrough sink, once
\* an event is handled with return code ret and left as ev2
DefaultOut(ret, ev2, out) ==
  IF ret = CHANGED_EVENT THEN ev2.value ELSE out

\* Whether a scan code of the current press of the toggle key has emitted a
\* default-button event, once ev is handled: the scan code read while the
\* key is up opens a press
DefaultInPress(km, ev, ret, held, n) ==
  IF ~IsToggleScan(km, ev) THEN n
  ELSE IF ret = CHANGED_EVENT THEN 1
  ELSE IF held = -1 THEN 0
  ELSE n

\* The value the primary button was last given on the virtual mouse, once an
\* event is handled with return code ret and left as ev2
ButtonOut(ret, ev2, out) ==
  IF ret = CHANGED_TO_MOUSE /\ ev2.type = EV_KEY /\ ev2.code = BTN_LEFT
  THEN ev2.value
  ELSE out

\* The press the toggle key is held from, once ev is handled: the time of a
\* press, none (-1) after a release
HeldFrom(ev, held) ==
  IF IsToggleKey(ev) /\ ev.value = 1 THEN ev.sec
  ELSE IF IsToggleKey(ev) /\ ev.value = 0 THEN -1
  ELSE held

\* ev is a scan-code event of a scroll key, read in pointer mode
IsWheelEvent(km, ev, st) ==
  /\ st.enabled # 0
  /\ ev.type = EV_MSC /\ ev.code = MSC_SCAN
  /\ keymap_get_keycode(km, ev.value) \in {KEY_MENU, KEY_SEND}

\* The tally of muted scroll events once ev, with return code ret, is handled
MutedSince(km, ev, st, ret) ==
  IF ~IsWheelEvent(km, ev, st) THEN muted_since
  ELSE IF ret # MUTE_EVENT THEN 0
  ELSE IF muted_since = -1 THEN -1
  ELSE muted_since + 1

MutedBefore(km, ev, st, ret) ==
  IF IsWheelEvent(km, ev, st) /\ ret # MUTE_EVENT THEN muted_since
  ELSE muted_before

\* ev is the release of the toggle key within MAX_TOGGLE_HOLD_TIME of the
\* press it is held from
IsShortTap(ev, held) ==
  /\ IsToggleKey(ev) /\ ev.value = 0
  /\ held # -1
  /\ ev.sec - held < MAX_TOGGLE_HOLD_TIME

\* STATUS_FILE once handle_input_event has handled ev in st0 and left st:
\* mouse_toggle calls write_status_file where it flips the mode
StatusAfterEvent(km, ev, st0, st, file) ==
  IF /\ ~LongHold(km, ev, st0)
     /\ IsToggleKey(ev)
     /\ ev.value = 0 /\ st0.toggle_down_at # 0
     /\ get_toggle_time(ev.sec, st0) < MAX_TOGGLE_HOLD_TIME
  THEN write_status_file(st)
  ELSE file

\* One event record, drawn from E, is read from the next ready device,
\* translated and forwarded
DeviceEvent(E) ==
  /\ pc = "devices"
  /\ \E ev \in E :
       LET r == handle_input_event(keymap, ev, Cur) IN
       /\ r.st.speed <= MaxSpeed
       /\ raw' = ev
       /\ event' = r.ev
       /\ event_result' = r.ret
       /\ sink' = SinkOf(r.ret)
       /\ sink_dev' = IF r.ret > 0 THEN NextDevice ELSE 0
       /\ Become(r.st)
       /\ toggle_pressed_at' = HeldFrom(ev, toggle_pressed_at)
       /\ muted_since' = MutedSince(keymap, ev, Cur, r.ret)
       /\ muted_before' = MutedBefore(keymap, ev, Cur, r.ret)
       /\ toggles' = IF IsShortTap(ev, toggle_pressed_at)
                     THEN 1 - toggles ELSE toggles
       /\ status_file' = StatusAfterEvent(keymap, ev, Cur, r.st, status_file)
       /\ toggle_scan_at' = ScanAt(keymap, ev, toggle_scan_at)
       /\ default_out' = DefaultOut(r.ret, r.ev, default_out)
       /\ default_in_press' =
            DefaultInPress(keymap, ev, r.ret, toggle_pressed_at, default_in_press)
       /\ button_out' = ButtonOut(r.ret, r.ev, button_out)
  /\ rfds' = rfds \ {NextDevice}
  /\ pc' = AfterServing(rfds')
  /\ last' = "event"
  /\ NoCommandSeen
  /\ UNCHANGED << keymap, ctl_ready, now, commanded >>

\* The steps of the program that do not depend on what the environment sends
Loop ==
  \/ Signal
  \/ EnterLoop
  \/ LoopExit
  \/ SelectIdle
  \/ SelectFail
  \/ SelectReady
  \/ ControlNoCommand
  \/ DeviceReadFail

\* The toggle key under a running clock
NextToggle ==
  \/ Loop
  \/ Tick
  \/ ControlCommand(ModeLines)
  \/ DeviceEvent(ToggleEvents(keymap, now))

SpecToggle == Init /\ [][NextToggle]_vars

\* Every key but no scrolling, within one second
NextPointer ==
  \/ Loop
  \/ ControlCommand(ModeLines)
  \/ DeviceEvent(PointerEvents(keymap, now))

SpecPointer == Init /\ [][NextPointer]_vars

\* Scrolling and mode changes, within one second
NextWheel ==
  \/ Loop
  \/ ControlCommand(ModeLines)
  \/ DeviceEvent(WheelEvents(keymap, now))

SpecWheel == Init /\ [][NextWheel]_vars

\* Every control line, a few keys, within one second
NextControl ==
  \/ Loop
  \/ ControlCommand(Lines)
  \/ DeviceEvent(FewEvents(keymap, now))

SpecControl == Init /\ [][NextControl]_vars

\* Shutdown: a client quits or a signal arrives while events keep coming. The
\* process keeps executing: a ready descriptor is read without blocking and
\* the client of an accepted connection sends its line or closes, so each
\* step of the loop that is due is taken.
NextStop ==
  \/ Loop
  \/ ControlCommand(StopLines)
  \/ DeviceEvent(StopEvents(keymap, now))

SpecStop ==
  /\ Init /\ [][NextStop]_vars
  /\ WF_vars(LoopExit)
  /\ WF_vars(ControlNoCommand \/ ControlCommand(StopLines))
  /\ WF_vars(DeviceReadFail \/ DeviceEvent(StopEvents(keymap, now)))

\* SpecStop with main going on to run_event_loop when it can
SpecSignal ==
  /\ Init /\ [][NextStop]_vars
  /\ WF_vars(EnterLoop)
  /\ WF_vars(LoopExit)
  /\ WF_vars(ControlNoCommand \/ ControlCommand(StopLines))
  /\ WF_vars(DeviceReadFail \/ DeviceEvent(StopEvents(keymap, now)))

\* Clicks, drag lock and mode changes by key and by control line, within one
\* second
NextDrag ==
  \/ Loop
  \/ ControlCommand(ModeLines)
  \/ DeviceEvent(DragEvents(keymap, now))

SpecDrag == Init /\ [][NextDrag]_vars

\* The toggle key alone, worked as a physical key, under a running clock
NextPhysical ==
  \/ Loop
  \/ Tick
  \/ DeviceEvent(PhysicalEvents(keymap, now, toggle_pressed_at, toggle_scan_at))

SpecPhysical == Init /\ [][NextPhysical]_vars

(* ------------------------------------------------------------------ *)
(* Properties                                                           *)
(* ------------------------------------------------------------------ *)

\* A toggle-key event: the direct key event of the toggle key, or a
\* scan-code event that decodes to the toggle key
IsToggleEvent(km, ev) == IsToggleKey(ev) \/ IsToggleScan(km, ev)

\* The step taken last read raw from a device and translated it.
Handled == last = "event"

\* The ModeState fields and the run flag are what they were before the step.
ModeStateKept ==
  /\ enabled = old.enabled
  /\ toggle_down_at = old.toggle_down_at
  /\ speed = old.speed
  /\ drag_mode = old.drag_mode
  /\ running = old.running

\* C1: while the toggle key is held from a press at t1 (whatever came before
\* the press, whatever scan-code events came after it), its release at t2
\* flips enabled when t2 - t1 < 1 and leaves enabled alone when t2 - t1 >= 1.
C1_HoldDecidesFlip ==
  toggle_pressed_at # -1 =>
    \A c \in {KEY_HELP, KEY_F12} :
      LET r == handle_input_event(keymap, Key(c, 0, now), Cur)
      IN IF now - toggle_pressed_at < 1
         THEN r.st.enabled = Not(enabled)
         ELSE r.st.enabled = enabled

\* A release within the second of its press has just flipped the mode, after
\* the clock had advanced.
C1_Witness ==
  /\ Handled
  /\ IsToggleKey(raw) /\ raw.value = 0
  /\ raw.sec > MinTime
  /\ old.toggle_down_at = raw.sec
  /\ enabled = Not(old.enabled)

\* C2: every flip of enabled, by a key or by a control command, comes with a
\* run of the Transition Sequencer: relative-motion events written to the
\* virtual mouse in the same step.
C2_FlipRunsSequencer ==
  (last \in {"event", "control"} /\ enabled # old.enabled) =>
    (sink = "mouse" /\ event.type = EV_REL)

\* C3: with the mode disabled, an event that is not a toggle-key event is
\* passed through with its fields as read and changes nothing.
C3_DisabledPassThrough ==
  /\ enabled = 0 =>
       \A ev \in Events(keymap, now) :
         ~IsToggleEvent(keymap, ev) =>
           handle_input_event(keymap, ev, Cur) = Res(PASS_THRU_EVENT, ev, Cur)
  /\ (Handled /\ old.enabled = 0 /\ ~IsToggleEvent(keymap, raw)) =>
       /\ event = raw
       /\ event_result = PASS_THRU_EVENT
       /\ sink = "passthru"
       /\ ModeStateKept
       /\ slowdown_counter = old.slowdown_counter

\* The key event of `up`, pressed with the mode disabled, went to the
\* passthrough sink as read.
C3_Witness ==
  /\ Handled
  /\ old.enabled = 0
  /\ raw = Key(KEY_UP, 1, now)
  /\ event = raw
  /\ sink = "passthru"

\* C4, as claimed: with the mode enabled and speed s, the key event of `left`
\* with value 1 becomes a relative motion of -s on the horizontal axis, written
\* to the virtual mouse.
C4_LeftKeyMoves ==
  (Handled /\ old.enabled = 1 /\ raw = Key(KEY_LEFT, 1, now)) =>
    /\ sink = "mouse"
    /\ event.type = EV_REL /\ event.code = REL_X /\ event.value = -old.speed

\* What a scan-code event of key k must become at speed s
Moved(k, s) ==
  CASE k = KEY_LEFT  -> [type |-> EV_REL, code |-> REL_X, value |-> -s]
    [] k = KEY_RIGHT -> [type |-> EV_REL, code |-> REL_X, value |-> s]
    [] k = KEY_UP    -> [type |-> EV_REL, code |-> REL_Y, value |-> -s]
    [] k = KEY_DOWN  -> [type |-> EV_REL, code |-> REL_Y, value |-> s]

Arrows == {KEY_LEFT, KEY_RIGHT, KEY_UP, KEY_DOWN}

\* C4, amended: with the mode enabled and speed s, the scan-code event that
\* decodes to `left` becomes a relative motion of -s on the horizontal axis,
\* written to the virtual mouse (up: vertical -s, down: vertical +s, right:
\* horizontal +s); the key event of a directional key is muted.
C4_ScanCodeMoves ==
  /\ enabled = 1 =>
       \A k \in Arrows :
         /\ LET r == handle_input_event(keymap, Scan(keymap, k, now), Cur)
            IN /\ r.ret < 0
               /\ r.ev = Moved(k, speed) @@ [sec |-> now]
               /\ r.st = Cur
         /\ \A v \in KeyValues :
              handle_input_event(keymap, Key(k, v, now), Cur).ret = MUTE_EVENT
  /\ \A k \in Arrows :
       (Handled /\ old.enabled = 1 /\ raw = Scan(keymap, k, now)) =>
         /\ sink = "mouse"
         /\ event = Moved(k, old.speed) @@ [sec |-> now]

\* The scan code of `left`, read at a speed other than the initial 4, went to
\* the virtual mouse as a horizontal motion of minus that speed.
C4_Witness ==
  /\ Handled
  /\ old.enabled = 1
  /\ old.speed = 2
  /\ raw = Scan(keymap, KEY_LEFT, now)
  /\ sink = "mouse"
  /\ event.type = EV_REL /\ event.code = REL_X /\ event.value = -2

\* C5: speed never falls below 1, and a volume-down press at speed 1 leaves
\* it at 1.
C5_SpeedFloor ==
  /\ speed >= 1
  /\ (enabled = 1 /\ speed = 1) =>
       handle_input_event(keymap, Key(KEY_VOLUMEDOWN, 1, now), Cur).st.speed = 1
  /\ (Handled /\ old.enabled = 1 /\ raw = Key(KEY_VOLUMEDOWN, 1, now)) =>
       speed = (IF old.speed = 1 THEN 1 ELSE old.speed - 1)

\* A volume-down press was handled at speed 1.
C5_Witness ==
  /\ Handled
  /\ old.enabled = 1
  /\ old.speed = 1
  /\ raw = Key(KEY_VOLUMEDOWN, 1, now)
  /\ speed = 1

\* C6: with the mode enabled, of any 5 consecutive scroll scan-code events
\* exactly one is forwarded as a wheel event (+1 for menu, -1 for send) and
\* four are muted, whichever of the two keys they come from and whatever
\* periods of disabled mode lie between them: never more than 4 are muted
\* after a forwarded one, and a forwarded one follows exactly 4 muted ones.
C6_OneInFive ==
  /\ muted_since <= WHEEL_SLOWDOWN_FACTOR - 1
  /\ muted_before \in {-1, WHEEL_SLOWDOWN_FACTOR - 1}
  /\ (Handled /\ IsWheelEvent(keymap, raw, old) /\ event_result # MUTE_EVENT) =>
       /\ sink = "mouse"
       /\ event.type = EV_REL /\ event.code = REL_WHEEL
       /\ event.value =
            (IF raw = Scan(keymap, KEY_MENU, now) THEN 1 ELSE -1)

\* The control lines of the model by what they begin with once trimmed
EnableLines ==
  { W_enable \o << "\n" >>,
    << " ", " " >> \o W_enable \o << "\n" >>,
    W_enable \o << "d" >> }

DisableLines == { W_disable \o << "\n" >>, << "\t" >> \o W_disable }

StatusLines == { W_status \o << "\n" >>, << "\r", "\n" >> \o W_status }

UnknownLines ==
  { << "f", "r", "o", "b", "n", "i", "c", "a", "t", "e" >>,
    << "E", "n", "a", "b", "l", "e" >>,
    << "e", "n", "a", "b" >>,
    << "x" >> \o W_enable,
    << "\n" >> }

\* The step taken last handled a control line of the set ls.
Commanded(ls) == last = "control" /\ line \in ls

\* C7: a line that begins with `enable` once trimmed is answered "ok enabled"
\* and leaves enabled true, whether it was false or true before; a line that
\* begins with `disable` is answered "ok disabled" and leaves enabled false;
\* neither changes speed, the drag lock or the time the toggle key went down.
C7_EnableDisable ==
  /\ \A l \in EnableLines :
       LET r == control_handle_command(l, Cur)
       IN r.reply = << "ok enabled" >> /\ r.st = [Cur EXCEPT !.enabled = 1]
  /\ \A l \in DisableLines :
       LET r == control_handle_command(l, Cur)
       IN r.reply = << "ok disabled" >> /\ r.st = [Cur EXCEPT !.enabled = 0]
  /\ Commanded(EnableLines) => reply = << "ok enabled" >> /\ enabled = 1
  /\ Commanded(DisableLines) => reply = << "ok disabled" >> /\ enabled = 0
  /\ Commanded(EnableLines \cup DisableLines) =>
       /\ speed = old.speed
       /\ drag_mode = old.drag_mode
       /\ toggle_down_at = old.toggle_down_at

\* "  enable\n" was handled with the mode already enabled, at a speed and a
\* drag lock other than the initial ones.
C7_Witness ==
  /\ Commanded({ << " ", " " >> \o W_enable \o << "\n" >> })
  /\ old.enabled = 1
  /\ enabled = 1
  /\ reply = << "ok enabled" >>
  /\ speed # 4
  /\ drag_mode = 1

\* C8: a line that matches no command is answered "err unknown_command" and
\* changes nothing: the mode state and the run flag are what they were, and
\* the loop keeps running.
C8_UnknownCommand ==
  /\ \A l \in UnknownLines :
       control_handle_command(l, Cur) = Ctl(<< "err unknown_command" >>, Cur)
  /\ Commanded(UnknownLines) =>
       /\ reply = << "err unknown_command" >>
       /\ Cur = old

\* "frobnicate" was handled while the loop was running in pointer mode, and
\* the loop is still running.
C8_Witness ==
  /\ Commanded({ << "f", "r", "o", "b", "n", "i", "c", "a", "t", "e" >> })
  /\ reply = << "err unknown_command" >>
  /\ old.running = 1 /\ running = 1
  /\ enabled = 1
  /\ pc # "exit"

\* C9: `status` changes nothing, and its reply carries the values enabled,
\* speed and the drag lock have when it is handled.
C9_StatusReadsState ==
  /\ \A l \in StatusLines :
       control_handle_command(l, Cur) =
         Ctl(<< "enabled=", enabled, " speed=", speed, " drag=", drag_mode >>,
             Cur)
  /\ Commanded(StatusLines) =>
       /\ Cur = old
       /\ reply = << "enabled=", enabled, " speed=", speed,
                     " drag=", drag_mode >>

\* `status` was answered after the speed and the drag lock had been changed.
C9_Witness ==
  /\ Commanded(StatusLines)
  /\ reply = << "enabled=", 1, " speed=", 3, " drag=", 1 >>

\* A tap of the toggle key at time t, as the device delivers it: the scan code
\* and the key event of the press, then those of the release
TapFrom(km, t, st) ==
  LET s1 == handle_input_event(km, Scan(km, KEY_HELP, t), st)
      p  == handle_input_event(km, Key(KEY_HELP, 1, t), s1.st)
      s2 == handle_input_event(km, Scan(km, KEY_HELP, t), p.st)
      r  == handle_input_event(km, Key(KEY_HELP, 0, t), s2.st)
  IN r.st

\* The press and the release alone
KeyTapFrom(km, t, st) ==
  LET p == handle_input_event(km, Key(KEY_HELP, 1, t), st)
  IN handle_input_event(km, Key(KEY_HELP, 0, t), p.st).st

\* C10: control commands are one-shot: in every state, whatever commands came
\* before, a short tap of the toggle key flips enabled, and enabled changes
\* only in the step that handles a mode command or a toggle-key release, so
\* nothing re-applies the value a past command set.
C10_CommandsAreOneShot ==
  /\ TapFrom(keymap, now, Cur).enabled = Not(enabled)
  /\ KeyTapFrom(keymap, now, Cur).enabled = Not(enabled)
  /\ enabled # old.enabled =>
       \/ last = "control" /\ IsModeCommand(line)
       \/ Handled /\ IsToggleKey(raw) /\ raw.value = 0

\* After a command that enabled the mode, a tap has disabled it.
C10_Witness ==
  /\ commanded = 1
  /\ Handled
  /\ IsToggleKey(raw) /\ raw.value = 0
  /\ old.enabled = 1
  /\ enabled = 0

\* C11: toggling the mode an even number of times, by short taps of the toggle
\* key and by control commands that change the mode, in any mixture, returns
\* enabled to the value it had before them: enabled follows the parity of the
\* togglings, 0 after an even number and 1 after an odd number.
C11_EvenTogglesRestore == enabled = toggles

\* A command enabled the mode and a short tap then disabled it: two
\* togglings, and the mode is disabled as at the start.
C11_Witness ==
  /\ toggles = 0
  /\ commanded = 1
  /\ Handled
  /\ IsToggleKey(raw) /\ raw.value = 0
  /\ old.enabled = 1 /\ old.toggle_down_at = raw.sec
  /\ enabled = 0

\* C13: once a change of enabled, speed or the drag lock has been processed,
\* whether a tap, a control command, a volume key or the drag key made it, the
\* status snapshot carries the current values of enabled, speed and drag.
C13_SnapshotFollowsState ==
  ( /\ last \in {"event", "control"}
    /\ \/ enabled # old.enabled
       \/ speed # old.speed
       \/ drag_mode # old.drag_mode )
  => status_file = write_status_file(Cur)

QuitLines == { W_quit \o << "\n" >> }

\* The run flag is clear while the loop is still in an iteration or at its test.
Stopping == running = 0 /\ pc \in {"while", "control", "devices"}

\* The step handles `quit`: it replies, clears the run flag, and leaves the
\* devices that were ready to be served.
QuitStep ==
  (pc = "control" /\ last' = "control" /\ line' \in QuitLines) =>
    /\ reply' = << "ok quitting" >>
    /\ running' = 0
    /\ rfds' = rfds
    /\ pc' = (IF rfds = {} THEN "while" ELSE "devices")

\* A step taken while stopping: no readiness wait, nothing newly ready, the
\* run flag stays clear; a device step serves one of the devices that were
\* ready, and from the loop test the only way on is out.
StoppingStep ==
  Stopping =>
    /\ running' = 0
    /\ last' \notin {"select", "idle", "selectfail", "enter"}
    /\ rfds' \subseteq rfds
    /\ ctl_ready' => ctl_ready
    /\ last' \in {"event", "readfail"} =>
         /\ pc = "devices"
         /\ rfds # {} /\ rfds' = rfds \ {NextDevice}
    /\ pc = "while" => pc' \in {"while", "exit"} /\ last' \notin {"event", "control"}
    /\ pc' = "exit" => rfds = {} /\ last' = "exit"

\* C12: `quit` is answered "ok quitting" and clears the run flag; the devices
\* ready in the same iteration are still read, translated and forwarded, and
\* the loop then exits without another readiness wait, so nothing is
\* translated after that iteration. A signal that arrives while the loop runs
\* does the same: the iteration is completed and the loop exits.
C12_StopCompletesIteration ==
  /\ [][QuitStep /\ StoppingStep]_vars
  /\ Stopping ~> pc = "exit"

\* `quit` was handled while the loop was running with both devices ready: the
\* run flag is clear and the devices are about to be served.
C12_Witness ==
  /\ Commanded(QuitLines)
  /\ reply = << "ok quitting" >>
  /\ old.running = 1 /\ running = 0
  /\ rfds = Devices
  /\ pc = "devices"

\* C14: a release of the toggle key handled while the detector is held
\* (toggle_down_at is not 0) leaves toggle_down_at at 0, whether the hold was
\* short (mode flipped) or long (mode not flipped), and the event is forwarded,
\* not muted.
C14_ReleaseResetsDetector ==
  (Handled /\ IsToggleKey(raw) /\ raw.value = 0 /\ old.toggle_down_at # 0) =>
    /\ toggle_down_at = 0
    /\ event_result # MUTE_EVENT
    /\ sink # "none"

\* C15: a scan-code event of the toggle key is handled the same way in both
\* modes: rewritten to a key event of the default button and written to the
\* passthrough sink as CHANGED_EVENT when the key has been held beyond the
\* threshold, muted otherwise.
C15_ToggleScanChangedOrMuted ==
  (Handled /\ IsToggleScan(keymap, raw)) =>
    IF old.toggle_down_at # 0
       /\ raw.sec - old.toggle_down_at > MAX_TOGGLE_HOLD_TIME
    THEN /\ event_result = CHANGED_EVENT
         /\ sink = "passthru"
         /\ event.type = EV_KEY /\ event.code = KEY_HELP
    ELSE /\ event_result = MUTE_EVENT
         /\ sink = "none"

\* The toggle key pressed at t and released at t + 2, each as its scan code
\* followed by its key event, then the next scan code of the toggle key:
\* what the handler returns for the scan code of the release (s2), the key
\* event of the release (r) and the next scan code (s3)
LongHoldFrom(km, t, st) ==
  LET s1 == handle_input_event(km, Scan(km, KEY_HELP, t), st)
      p  == handle_input_event(km, Key(KEY_HELP, 1, t), s1.st)
      s2 == handle_input_event(km, Scan(km, KEY_HELP, t + 2), p.st)
      r  == handle_input_event(km, Key(KEY_HELP, 0, t + 2), s2.st)
      s3 == handle_input_event(km, Scan(km, KEY_HELP, t + 2), r.st)
  IN [s2 |-> s2, r |-> r, s3 |-> s3]

\* C16: with the mode enabled, the toggle key pressed, held for 2 seconds and
\* released: the scan code of the release becomes a default-button key event
\* of value 1 on the passthrough sink, the release leaves enabled as it was,
\* and the next scan code of the toggle key becomes the default-button event
\* of value 0 and returns toggle_down_at to 0.
C16_LongHoldDefaultButton ==
  /\ enabled = 1 =>
       LET h == LongHoldFrom(keymap, now, Cur) IN
       /\ h.s2.ret = CHANGED_EVENT
       /\ h.s2.ev = Key(KEY_HELP, 1, now + 2)
       /\ h.r.st.enabled = enabled
       /\ h.s3.ret = CHANGED_EVENT
       /\ h.s3.ev = Key(KEY_HELP, 0, now + 2)
       /\ h.s3.st.toggle_down_at = 0
  /\ ( /\ Handled /\ IsToggleScan(keymap, raw)
       /\ toggle_pressed_at # -1 /\ raw.sec - toggle_pressed_at >= 2
       /\ old.toggle_down_at = toggle_pressed_at ) =>
       /\ event = Key(KEY_HELP, 1, raw.sec)
       /\ sink = "passthru"
       /\ enabled = old.enabled
  /\ (Handled /\ IsToggleScan(keymap, raw) /\ old.toggle_down_at = 1) =>
       /\ event = Key(KEY_HELP, 0, raw.sec)
       /\ sink = "passthru"
       /\ toggle_down_at = 0

\* After a hold of 2 seconds in pointer mode, the scan code that follows the
\* release was written to the passthrough sink as the default-button event of
\* value 0, the detector is back at 0 and the mode is still enabled.
C16_Witness ==
  /\ Handled /\ IsToggleScan(keymap, raw)
  /\ raw.sec = MinTime + 2
  /\ old.toggle_down_at = 1 /\ toggle_down_at = 0
  /\ toggle_pressed_at = -1
  /\ event = Key(KEY_HELP, 0, raw.sec)
  /\ sink = "passthru"
  /\ enabled = 1

\* C17: with the mode enabled, a press of the drag key flips the drag lock
\* and becomes a primary-button event whose value is the new lock (1 locked,
\* 0 unlocked), written to the virtual mouse; two presses in a row restore
\* the lock; Enter becomes a primary-button event with Enter's own value and
\* leaves the lock alone.
C17_DragAndClick ==
  /\ enabled = 1 =>
       LET r  == handle_input_event(keymap, Key(KEY_B, 1, now), Cur)
           r2 == handle_input_event(keymap, Key(KEY_B, 1, now), r.st)
       IN /\ r.ret < 0
          /\ r.ev = Key(BTN_LEFT, Not(drag_mode), now)
          /\ r.st = [Cur EXCEPT !.drag_mode = Not(drag_mode)]
          /\ r2.st = Cur
          /\ \A v \in KeyValues :
               LET c == handle_input_event(keymap, Key(KEY_ENTER, v, now), Cur)
               IN c.ret < 0 /\ c.ev = Key(BTN_LEFT, v, now) /\ c.st = Cur
  /\ (Handled /\ old.enabled = 1 /\ raw = Key(KEY_B, 1, now)) =>
       /\ sink = "mouse"
       /\ drag_mode = Not(old.drag_mode)
       /\ event = Key(BTN_LEFT, drag_mode, now)
  /\ (Handled /\ old.enabled = 1 /\ raw.type = EV_KEY /\ raw.code = KEY_ENTER) =>
       /\ sink = "mouse"
       /\ event = Key(BTN_LEFT, raw.value, now)
       /\ drag_mode = old.drag_mode

\* The drag key was pressed with the lock on: the lock is off and the button
\* event written to the virtual mouse is a release.
C17_Witness ==
  /\ Handled
  /\ old.enabled = 1
  /\ raw = Key(KEY_B, 1, now)
  /\ old.drag_mode = 1 /\ drag_mode = 0
  /\ event = Key(BTN_LEFT, 0, now)
  /\ sink = "mouse"

\* Steps of the loop, told by what the step leaves in `last`
ControlStep == last' \in {"control", "nocommand"}

DeviceStep == last' \in {"event", "readfail"}

\* C18: in each iteration the control socket is served before any device, and
\* once: a control step is taken with every ready device still unserved, a
\* device step only when no control connection is pending; a command that
\* sets the mode is applied before the events of the same iteration, which
\* are translated under the new mode; each device step serves one ready
\* device, and the loop returns to select only when all have been served.
C18_ControlBeforeDevices ==
  [][ /\ ControlStep =>
           /\ pc = "control" /\ ctl_ready /\ ~ctl_ready'
           /\ rfds' = rfds
           /\ pc' = (IF rfds = {} THEN "while" ELSE "devices")
      /\ DeviceStep =>
           /\ pc = "devices" /\ ~ctl_ready
           /\ \E d \in rfds : rfds' = rfds \ {d}
           /\ pc' = (IF rfds' = {} THEN "while" ELSE "devices")
      /\ last' = "select" => (ctl_ready' <=> pc' = "control")
      /\ ( /\ Commanded(EnableLines) /\ pc = "devices"
           /\ last' = "event" /\ raw' = Scan(keymap, KEY_LEFT, now) ) =>
           sink' = "mouse" /\ event'.type = EV_REL
      /\ ( /\ Commanded(DisableLines) /\ pc = "devices"
           /\ last' = "event" /\ raw' = Scan(keymap, KEY_LEFT, now) ) =>
           sink' = "passthru" /\ event' = raw'
    ]_vars

\* `enable` was handled, from disabled mode, in an iteration in which both
\* devices are ready too: the mode is enabled and neither device has been
\* read yet.
C18_Witness ==
  /\ Commanded({ W_enable \o << "\n" >> })
  /\ old.enabled = 0 /\ enabled = 1
  /\ ~ctl_ready
  /\ rfds = Devices
  /\ pc = "devices"

\* An event record of the virtual mouse: relative motion, wheel, primary button
IsMouseEvent(ev) ==
  \/ ev.type = EV_REL /\ ev.code \in {REL_X, REL_Y, REL_WHEEL}
  \/ ev.type = EV_KEY /\ ev.code = BTN_LEFT

\* Where the loop sends ev, read in the current state: the translated record
\* and its one destination
Routed(ev) ==
  LET r == handle_input_event(keymap, ev, Cur)
  IN [ret |-> r.ret, ev |-> r.ev, sink |-> SinkOf(r.ret)]

\* Events that the translator rewrites in pointer mode, and the scan code of
\* the toggle key two seconds from now
Rewritten(km, t) ==
  {Scan(km, k, t) : k \in Arrows \cup {KEY_MENU, KEY_SEND}}
  \cup {Key(KEY_ENTER, 0, t), Key(KEY_ENTER, 1, t), Key(KEY_B, 1, t),
        Scan(km, KEY_HELP, t + 2)}

\* C19: every event read from a device goes to one destination: the
\* passthrough sink of the device it was read from, the virtual mouse, or
\* nowhere. Events rewritten to mouse events go to the virtual mouse only;
\* PASS_THRU events and the default-button CHANGED event go to the
\* passthrough sink only; a failed read emits nothing, changes nothing, and
\* the loop goes on.
C19_OneDestination ==
  [][ /\ \A ev \in Rewritten(keymap, now) :
           LET w == Routed(ev) IN
           /\ (w.ev # ev /\ IsMouseEvent(w.ev)) => w.sink = "mouse"
           /\ w.ret \in {PASS_THRU_EVENT, CHANGED_EVENT} => w.sink = "passthru"
           /\ w.ret = MUTE_EVENT => w.sink = "none"
      /\ (last' = "event" /\ rfds' # rfds) =>
           /\ sink' \in {"passthru", "mouse", "none"}
           /\ sink' = "passthru" <=> event_result' > 0
           /\ sink' = "mouse" <=> event_result' < 0
           /\ sink' = "passthru" => sink_dev' \in rfds /\ sink_dev' \notin rfds'
           /\ sink' # "passthru" => sink_dev' = 0
           /\ event_result' \in {PASS_THRU_EVENT, CHANGED_EVENT} =>
                sink' = "passthru"
           /\ (event' # raw' /\ IsMouseEvent(event')) => sink' = "mouse"
      /\ (last' = "readfail" /\ rfds' # rfds) =>
           /\ sink' = "none" /\ sink_dev' = 0
           /\ Cur' = Cur
           /\ pc' \in {"devices", "while"}
    ]_vars

\* The scan code of the toggle key, held beyond the threshold, was read from
\* the second device while the first was ready too: the default-button event
\* went to the passthrough sink of the second device.
C19_Witness ==
  /\ Handled
  /\ IsToggleScan(keymap, raw)
  /\ event_result = CHANGED_EVENT
  /\ event = Key(KEY_HELP, 1, now)
  /\ sink = "passthru"
  /\ sink_dev = 2

\* C20: the counter of the scroll keys goes up by one (in its width) on
\* every scroll scan-code event handled in pointer mode, and the number of
\* scroll events muted between two consecutive forwarded wheel events is
\* exactly WHEEL_SLOWDOWN_FACTOR - 1, so that they are 5 events apart, also
\* when the counter has gone from its maximum to 0 between them.
C20_PatternSurvivesWrap ==
  (Handled /\ IsWheelEvent(keymap, raw, old)) =>
    /\ slowdown_counter = UIntInc(old.slowdown_counter)
    /\ (event_result # MUTE_EVENT /\ muted_before # -1) =>
         muted_before + 1 = WHEEL_SLOWDOWN_FACTOR

\* The step reads an event from a device and hands it to the translator.
EventStep == last' = "event" /\ rfds' # rfds

\* C21: with the toggle key worked as a physical key, the default-button
\* events written to the passthrough sink take the values 1, 0, 1, 0, ...
\* starting with 1, and no scan code of a short tap (released within the
\* threshold of its press, which flips the mode) emits one, whatever holds
\* came before.
C21_DefaultButtonAlternates ==
  [][ EventStep =>
        /\ event_result' = CHANGED_EVENT =>
             /\ IsToggleKey(event')
             /\ sink' = "passthru"
             /\ event'.value = 1 - default_out
        /\ IsShortTap(raw', toggle_pressed_at) =>
             /\ enabled' = Not(enabled)
             /\ default_in_press = 0
    ]_vars

\* C22: once signal_handler has run, at whatever point after
\* setup_signal_handlers, the event loop is left.
C22_SignalStopsLoop == (last = "signal") ~> (pc = "exit")

\* C23: while drag_mode is set, the primary button was last given the value
\* 1 on the virtual mouse, and while the mode is disabled drag_mode is not
\* set, whatever clicks, drag-key presses and mode changes came before.
C23_DragMatchesButton ==
  /\ drag_mode # 0 => button_out = 1
  /\ enabled = 0 => drag_mode = 0

\* The keys of the keymap table km
KeymapKeys(km) == {km[i].keycode : i \in 1..Len(km)}

\* The directional keys and the scroll keys
MovingKeys == Arrows \cup {KEY_MENU, KEY_SEND}

\* In pointer mode no event of a key of K reaches a passthrough sink: its key
\* event is muted whatever its value, its scan-code event is muted or
\* rewritten to a mouse event for the virtual mouse; both as the translator
\* answers in the current state and on the events read.
KeptFromPassthrough(K) ==
  /\ enabled # 0 =>
       \A k \in K :
         /\ \A v \in KeyValues :
              handle_input_event(keymap, Key(k, v, now), Cur).ret = MUTE_EVENT
         /\ LET r == handle_input_event(keymap, Scan(keymap, k, now), Cur)
            IN \/ r.ret = MUTE_EVENT
               \/ r.ret = CHANGED_TO_MOUSE /\ IsMouseEvent(r.ev)
  /\ (Handled /\ old.enabled # 0) =>
       \A k \in K :
         /\ (raw.type = EV_KEY /\ raw.code = k) =>
              event_result = MUTE_EVENT /\ sink = "none"
         /\ raw = Scan(keymap, k, now) =>
              \/ event_result = MUTE_EVENT /\ sink = "none"
              \/ sink = "mouse" /\ IsMouseEvent(event)

\* C24, as claimed: in pointer mode the key event of every key of the active
\* keymap is muted and its scan-code event is rewritten to a mouse event or
\* muted, so that none reaches a passthrough sink.
C24_KeymapKeysKept == KeptFromPassthrough(KeymapKeys(keymap))

\* C24, amended: in pointer mode the key event of every directional key and
\* scroll key is muted, whatever its value, and its scan-code event is
\* rewritten to a mouse event for the virtual mouse or muted: no event of
\* these keys reaches a passthrough sink. (The toggle key, the seventh key of
\* the keymap, is handled ahead of the mode test.)
C24_MovingKeysKept == KeptFromPassthrough(MovingKeys)

\* An autorepeat event of `up` was read in pointer mode and muted.
C24_Witness ==
  /\ Handled
  /\ old.enabled = 1
  /\ raw = Key(KEY_UP, 2, now)
  /\ event_result = MUTE_EVENT
  /\ sink = "none"

====
